---- MODULE Spec2Model ----
(***************************************************************************)
(* A model of src/noise.rs: the CryptoResolver trait, the DefaultResolver  *)
(* and the NoiseBuilder (constructors, setters, build).                    *)
(*                                                                         *)
(* A builder is a record; every setter is an operator from builder to      *)
(* builder (the Rust setters take `mut self` and return `Self`).  build    *)
(* consumes the builder and returns a Result together with the trace of    *)
(* the operations it performed on its collaborators (resolver queries,     *)
(* key installations, the call of HandshakeState::new).                    *)
(***************************************************************************)
EXTENDS Naturals, Sequences, FiniteSets

\* ------------------------------------------------------------------ bounds
\* Longest byte string a caller hands to a setter.
MaxLen == 1
\* Number of setter calls made on one builder before it is built.
MaxCalls == 2

\* ------------------------------------------------------------ Option/Result
None == <<>>
Some(x) == <<x>>
is_some(o) == Len(o) = 1
unwrap(o) == o[1]

Err(e) == [tag |-> "Err", val |-> e]
InitError(msg) == [error |-> "InitError", msg |-> msg]

\* ------------------------------------------------------------------- bytes
\* Byte strings are opaque to the builder: it never looks at a byte.  The
\* alphabet holds the one byte the builder's own tests use for keys.
Byte == {0}
Bytes == UNION {[1..n -> Byte] : n \in 0..MaxLen}

\* --------------------------------------------------------- protocol choices
\* DHChoice: Curve25519 and whatever falls in the `_` arm of resolve_dh.
DHChoice == {"Curve25519", "OtherDH"}
HashChoice == {"SHA256", "SHA512", "Blake2s", "Blake2b"}
CipherChoice == {"ChaChaPoly", "AESGCM"}

\* A handshake pattern, as far as the builder can see it: the answers of
\* its two per-role predicates (indexed by the `initiator` flag).
HandshakePattern ==
    [needs_local_static_key : [BOOLEAN -> BOOLEAN],
     need_known_remote_pubkey : [BOOLEAN -> BOOLEAN]]

needs_local_static_key(handshake, initiator) ==
    handshake.needs_local_static_key[initiator]

need_known_remote_pubkey(handshake, initiator) ==
    handshake.need_known_remote_pubkey[initiator]

NoiseParams ==
    [handshake : HandshakePattern, dh : DHChoice,
     hash : HashChoice, cipher : CipherChoice]

\* ---------------------------------------------------------------- resolvers
\* DefaultResolver, and the other implementations of the CryptoResolver
\* trait: a stateless resolver that supports a capability or does not.
DefaultResolver == [kind |-> "DefaultResolver"]

CustomResolver ==
    [kind : {"Custom"}, rng : BOOLEAN, dh : BOOLEAN,
     hash : BOOLEAN, cipher : BOOLEAN]

CryptoResolver == {DefaultResolver} \cup CustomResolver

DefaultResolver_resolve_rng == Some("RandomOs")

\* Mutant: the `_` arm is missing, every DH choice gets the Curve25519 code.
DefaultResolver_resolve_dh_any(choice) == Some("Dh25519")

DefaultResolver_resolve_dh(choice) ==
    IF choice = "Curve25519" THEN Some("Dh25519") ELSE None

DefaultResolver_resolve_hash(choice) ==
    CASE choice = "SHA256" -> Some("HashSHA256")
      [] choice = "SHA512" -> Some("HashSHA512")
      [] choice = "Blake2s" -> Some("HashBLAKE2s")
      [] choice = "Blake2b" -> Some("HashBLAKE2b")

DefaultResolver_resolve_cipher(choice) ==
    CASE choice = "ChaChaPoly" -> Some("CipherState<CipherChaChaPoly>")
      [] choice = "AESGCM" -> Some("CipherState<CipherAESGCM>")

resolve_rng(resolver) ==
    IF resolver.kind = "DefaultResolver" THEN DefaultResolver_resolve_rng
    ELSE IF resolver.rng THEN Some("CustomRandom") ELSE None

resolve_dh(resolver, choice) ==
    IF resolver.kind = "DefaultResolver" THEN DefaultResolver_resolve_dh(choice)
    ELSE IF resolver.dh THEN Some("CustomDh") ELSE None

resolve_hash(resolver, choice) ==
    IF resolver.kind = "DefaultResolver" THEN DefaultResolver_resolve_hash(choice)
    ELSE IF resolver.hash THEN Some("CustomHash") ELSE None

resolve_cipher(resolver, choice) ==
    IF resolver.kind = "DefaultResolver" THEN DefaultResolver_resolve_cipher(choice)
    ELSE IF resolver.cipher THEN Some("CustomCipher") ELSE None

\* ------------------------------------------------------------------ builder
with_resolver(params, resolver) ==
    [params |-> params, resolver |-> resolver,
     s |-> None, e |-> None, rs |-> None, re |-> None,
     plog |-> None, psk |-> None]

new(params) == with_resolver(params, DefaultResolver)

preshared_key(self, key) == [self EXCEPT !.psk = Some(key)]

local_private_key(self, key) == [self EXCEPT !.s = Some(key)]

\* Mutant: prologue stores into the slot of the setter it was copied from.
prologue_into_psk(self, key) == [self EXCEPT !.psk = Some(key)]

prologue(self, key) == [self EXCEPT !.plog = Some(key)]

remote_public_key(self, pub_key) == [self EXCEPT !.rs = Some(pub_key)]

\* `e` and `re` are public fields without a setter method: a caller
\* assigns them directly.
assign_e(self, key) == [self EXCEPT !.e = Some(key)]

assign_re(self, pub_key) == [self EXCEPT !.re = Some(pub_key)]

\* -------------------------------------------------------------------- build
\* The structural checks of build.
\* Mutant: the test of the slot is dropped, the pattern alone decides.
missing_local_key_unconditional(self, initiator) ==
    needs_local_static_key(self.params.handshake, initiator)

\* Mutant: the negation of the test of the slot is dropped.
missing_local_key_unnegated(self, initiator) ==
    is_some(self.s) /\ needs_local_static_key(self.params.handshake, initiator)

missing_local_key(self, initiator) ==
    ~is_some(self.s) /\ needs_local_static_key(self.params.handshake, initiator)

\* Mutant: the remote ephemeral slot is tested in place of the remote static one.
missing_remote_key_tests_re(self, initiator) ==
    ~is_some(self.re) /\ need_known_remote_pubkey(self.params.handshake, initiator)

missing_remote_key(self, initiator) ==
    ~is_some(self.rs) /\ need_known_remote_pubkey(self.params.handshake, initiator)

\* The resolver queries of build, in program order: the local the answer
\* is bound to, the trait method queried, and the message of the error
\* returned when the answer is None.
\* Mutant: the hash query carries the message of the query above it.
ResolutionOrder_hash_message ==
    << [local |-> "rng", method |-> "resolve_rng",
        msg |-> "no suitable RNG"],
       [local |-> "cipher", method |-> "resolve_cipher",
        msg |-> "no suitable cipher implementation"],
       [local |-> "hash", method |-> "resolve_hash",
        msg |-> "no suitable cipher implementation"],
       [local |-> "s", method |-> "resolve_dh",
        msg |-> "no suitable DH implementation"],
       [local |-> "e", method |-> "resolve_dh",
        msg |-> "no suitable DH implementation"],
       [local |-> "cipherstate1", method |-> "resolve_cipher",
        msg |-> "no suitable cipher implementation"],
       [local |-> "cipherstate2", method |-> "resolve_cipher",
        msg |-> "no suitable cipher implementation"] >>

\* Mutant: the hash is resolved before the cipher.
ResolutionOrder_hash_first ==
    << [local |-> "rng", method |-> "resolve_rng",
        msg |-> "no suitable RNG"],
       [local |-> "hash", method |-> "resolve_hash",
        msg |-> "no suitable hash implementation"],
       [local |-> "cipher", method |-> "resolve_cipher",
        msg |-> "no suitable cipher implementation"],
       [local |-> "s", method |-> "resolve_dh",
        msg |-> "no suitable DH implementation"],
       [local |-> "e", method |-> "resolve_dh",
        msg |-> "no suitable DH implementation"],
       [local |-> "cipherstate1", method |-> "resolve_cipher",
        msg |-> "no suitable cipher implementation"],
       [local |-> "cipherstate2", method |-> "resolve_cipher",
        msg |-> "no suitable cipher implementation"] >>

ResolutionOrder ==
    << [local |-> "rng", method |-> "resolve_rng",
        msg |-> "no suitable RNG"],
       [local |-> "cipher", method |-> "resolve_cipher",
        msg |-> "no suitable cipher implementation"],
       [local |-> "hash", method |-> "resolve_hash",
        msg |-> "no suitable hash implementation"],
       [local |-> "s", method |-> "resolve_dh",
        msg |-> "no suitable DH implementation"],
       [local |-> "e", method |-> "resolve_dh",
        msg |-> "no suitable DH implementation"],
       [local |-> "cipherstate1", method |-> "resolve_cipher",
        msg |-> "no suitable cipher implementation"],
       [local |-> "cipherstate2", method |-> "resolve_cipher",
        msg |-> "no suitable cipher implementation"] >>

\* One query of the resolver of `self`, with the choice taken from params.
query(self, method) ==
    CASE method = "resolve_rng" -> resolve_rng(self.resolver)
      [] method = "resolve_cipher" -> resolve_cipher(self.resolver, self.params.cipher)
      [] method = "resolve_hash" -> resolve_hash(self.resolver, self.params.hash)
      [] method = "resolve_dh" -> resolve_dh(self.resolver, self.params.dh)

\* The `?` chain: the index of the first query answered None, 0 if none is.
first_unresolved(self) ==
    LET failing == {i \in 1..Len(ResolutionOrder) :
                      query(self, ResolutionOrder[i].method) = None}
    IN IF failing = {} THEN 0
       ELSE CHOOSE i \in failing : \A j \in failing : i <= j

\* The methods of the first n queries, as build makes them.
queries(n) == [i \in 1..n |-> ResolutionOrder[i].method]

\* The instance the i-th query returned: a fresh box, holding no key.
instance(self, i) ==
    [impl |-> unwrap(query(self, ResolutionOrder[i].method)),
     query |-> i, key |-> None]

\* The instance bound to a local of build.
bound(self, local) ==
    instance(self, CHOOSE i \in 1..Len(ResolutionOrder) :
                     ResolutionOrder[i].local = local)

\* Dh::set
set(dh, key) == [dh EXCEPT !.key = Some(key)]

unwrap_or_empty(slot) == IF is_some(slot) THEN unwrap(slot) ELSE <<>>

\* Mutant: the key is installed whether or not one was supplied.
install_always(dh, slot) == set(dh, unwrap_or_empty(slot))

\* `if let Some(key) = slot { dh.set(key) }`
install(dh, slot) == IF is_some(slot) THEN set(dh, unwrap(slot)) ELSE dh

installs(self) ==
    (IF is_some(self.s) THEN <<"s.set">> ELSE <<>>)
    \o (IF is_some(self.e) THEN <<"e.set">> ELSE <<>>)

\* Mutant: presence is inferred from the bytes being non-empty.
presence_from_bytes(self) ==
    [has_s |-> unwrap_or_empty(self.s) # <<>>,
     has_e |-> unwrap_or_empty(self.e) # <<>>,
     has_rs |-> unwrap_or_empty(self.rs) # <<>>,
     has_re |-> unwrap_or_empty(self.re) # <<>>]

\* The four presence flags.
presence(self) ==
    [has_s |-> is_some(self.s),
     has_e |-> is_some(self.e),
     has_rs |-> is_some(self.rs),
     has_re |-> is_some(self.re)]

\* The arguments of the call HandshakeState::new(...) that ends build.
new_args(self, initiator) ==
    [rng |-> bound(self, "rng"),
     cipher |-> bound(self, "cipher"),
     hash |-> bound(self, "hash"),
     s |-> install(bound(self, "s"), self.s),
     e |-> install(bound(self, "e"), self.e),
     rs |-> unwrap_or_empty(self.rs),
     re |-> unwrap_or_empty(self.re),
     has_s |-> presence(self).has_s,
     has_e |-> presence(self).has_e,
     has_rs |-> presence(self).has_rs,
     has_re |-> presence(self).has_re,
     initiator |-> initiator,
     handshake |-> self.params.handshake,
     prologue |-> <<>>,
     optional_preshared_key |-> None,
     cipherstate1 |-> bound(self, "cipherstate1"),
     cipherstate2 |-> bound(self, "cipherstate2")]

\* build: what it returns (an InitError, or whatever HandshakeState::new
\* makes of the arguments handed to it) and the operations it performed.
build(self, initiator) ==
    IF missing_local_key(self, initiator) THEN
        [ret |-> Err(InitError("local key needed for chosen handshake pattern")),
         trace |-> <<>>]
    ELSE IF missing_remote_key(self, initiator) THEN
        [ret |-> Err(InitError("remote key needed for chosen handshake pattern")),
         trace |-> <<>>]
    ELSE IF first_unresolved(self) # 0 THEN
        [ret |-> Err(InitError(ResolutionOrder[first_unresolved(self)].msg)),
         trace |-> queries(first_unresolved(self))]
    ELSE
        [ret |-> [tag |-> "HandshakeState::new", val |-> new_args(self, initiator)],
         trace |-> queries(Len(ResolutionOrder)) \o installs(self)
                   \o <<"HandshakeState::new">>]

\* -------------------------------------------------------------------- state
VARIABLES
    builder,    \* the NoiseBuilder value (after build: the value consumed)
    created,    \* the builder as its constructor returned it
    calls,      \* number of setter calls made so far
    last,       \* per slot, the argument of the caller's last call (None: never called)
    replaced,   \* the latest setter call replaced a different value given earlier
    initiator,  \* None while configuring; Some(role flag) once build has run
    outcome     \* None while configuring; Some(what build returned and did)

vars == <<builder, created, calls, last, replaced, initiator, outcome>>

Slots == {"s", "e", "rs", "re", "psk", "plog"}

\* Under a custom resolver the answers do not depend on the algorithm
\* choices, so one choice of algorithms stands for all of them.
CustomParams ==
    {p \in NoiseParams : p.dh = "Curve25519" /\ p.hash = "SHA256"
                         /\ p.cipher = "ChaChaPoly"}

Init ==
    /\ builder \in {new(p) : p \in NoiseParams}
                   \cup {with_resolver(p, r) : p \in CustomParams, r \in CustomResolver}
    /\ created = builder
    /\ calls = 0
    /\ last = [x \in Slots |-> None]
    /\ replaced = FALSE
    /\ initiator = None
    /\ outcome = None

configuring == initiator = None /\ calls < MaxCalls

call(slot, key) ==
    /\ calls' = calls + 1
    /\ last' = [last EXCEPT ![slot] = Some(key)]
    /\ replaced' = (last[slot] # None /\ last[slot] # Some(key))
    /\ UNCHANGED <<created, initiator, outcome>>

call_preshared_key ==
    \E key \in Bytes :
        /\ configuring
        /\ builder' = preshared_key(builder, key)
        /\ call("psk", key)

call_local_private_key ==
    \E key \in Bytes :
        /\ configuring
        /\ builder' = local_private_key(builder, key)
        /\ call("s", key)

call_prologue ==
    \E key \in Bytes :
        /\ configuring
        /\ builder' = prologue(builder, key)
        /\ call("plog", key)

call_remote_public_key ==
    \E key \in Bytes :
        /\ configuring
        /\ builder' = remote_public_key(builder, key)
        /\ call("rs", key)

call_assign_e ==
    \E key \in Bytes :
        /\ configuring
        /\ builder' = assign_e(builder, key)
        /\ call("e", key)

call_assign_re ==
    \E key \in Bytes :
        /\ configuring
        /\ builder' = assign_re(builder, key)
        /\ call("re", key)

build_initiator ==
    /\ initiator = None
    /\ initiator' = Some(TRUE)
    /\ outcome' = Some(build(builder, TRUE))
    /\ UNCHANGED <<builder, created, calls, last, replaced>>

build_responder ==
    /\ initiator = None
    /\ initiator' = Some(FALSE)
    /\ outcome' = Some(build(builder, FALSE))
    /\ UNCHANGED <<builder, created, calls, last, replaced>>

Next ==
    \/ call_preshared_key
    \/ call_local_private_key
    \/ call_prologue
    \/ call_remote_public_key
    \/ call_assign_e
    \/ call_assign_re
    \/ build_initiator
    \/ build_responder

Spec == Init /\ [][Next]_vars

\* ------------------------------------------------------- reading the state
built == initiator # None
role == unwrap(initiator)
ret == unwrap(outcome).ret
trace == unwrap(outcome).trace
rejected == built /\ ret.tag = "Err"
constructed == built /\ ret.tag = "HandshakeState::new"
performed(op) == \E i \in 1..Len(trace) : trace[i] = op

local_key_required == needs_local_static_key(created.params.handshake, role)
remote_key_required == need_known_remote_pubkey(created.params.handshake, role)

required_keys_supplied ==
    /\ local_key_required => last.s # None
    /\ remote_key_required => last.rs # None

Capability == {"rng", "cipher", "hash", "dh"}

\* The resolver the builder was created with supports the capability, for
\* the choice of the descriptor the builder was created with.
supported(cap) ==
    CASE cap = "rng" -> resolve_rng(created.resolver) # None
      [] cap = "cipher" -> resolve_cipher(created.resolver, created.params.cipher) # None
      [] cap = "hash" -> resolve_hash(created.resolver, created.params.hash) # None
      [] cap = "dh" -> resolve_dh(created.resolver, created.params.dh) # None

CapabilityOf(method) ==
    CASE method = "resolve_rng" -> "rng"
      [] method = "resolve_cipher" -> "cipher"
      [] method = "resolve_hash" -> "hash"
      [] method = "resolve_dh" -> "dh"

MessageOf(cap) ==
    CASE cap = "rng" -> "no suitable RNG"
      [] cap = "cipher" -> "no suitable cipher implementation"
      [] cap = "hash" -> "no suitable hash implementation"
      [] cap = "dh" -> "no suitable DH implementation"

LocalKeyMessage == "local key needed for chosen handshake pattern"
RemoteKeyMessage == "remote key needed for chosen handshake pattern"

ExpectedQueries ==
    <<"resolve_rng", "resolve_cipher", "resolve_hash", "resolve_dh",
      "resolve_dh", "resolve_cipher", "resolve_cipher">>

\* ------------------------------------------------------------------- claims

\* C1: when the pattern needs the remote static public key known in advance
\* for the role built and remote_public_key was never called, build returns
\* an error and HandshakeState::new is not called, whatever else was set and
\* whatever the resolver supports.
C1_MissingRemoteKeyRejected ==
    (built /\ remote_key_required /\ last.rs = None)
        => (rejected /\ ~performed("HandshakeState::new"))

C1_Witness ==
    /\ built /\ remote_key_required /\ last.rs = None
    /\ ~local_key_required
    /\ last.s # None /\ last.psk # None
    /\ created.resolver.kind = "Custom" /\ ~supported("rng")
    /\ rejected /\ ret.val.msg = RemoteKeyMessage

\* C2: when the pattern needs a local static key for the role built and
\* local_private_key was never called, build returns an error and
\* HandshakeState::new is not called, whatever else was set and whatever
\* the resolver supports.
C2_MissingLocalKeyRejected ==
    (built /\ local_key_required /\ last.s = None)
        => (rejected /\ ~performed("HandshakeState::new"))

C2_Witness ==
    /\ built /\ local_key_required /\ last.s = None
    /\ last.rs # None /\ last.plog # None
    /\ created.resolver.kind = "DefaultResolver"
    /\ rejected /\ ret.val.msg = LocalKeyMessage

\* C3: when every key the pattern requires for the role was supplied and
\* the resolver supports all four capabilities, build returns no error of
\* its own and calls HandshakeState::new; material the pattern does not
\* require never causes rejection.
C3_CompleteConfigurationAccepted ==
    (built /\ required_keys_supplied /\ \A cap \in Capability : supported(cap))
        => (constructed /\ performed("HandshakeState::new"))

C3_Witness ==
    /\ constructed
    /\ local_key_required /\ ~remote_key_required
    /\ last.s # None /\ last.rs # None

\* C4: a capability the resolver does not support makes build return an
\* error and never call HandshakeState::new; an error raised by a resolver
\* query carries the message of the capability queried, which the resolver
\* does not support; HandshakeState::new is called only after all seven
\* queries were made and every capability resolved.
C4_UnsupportedCapabilityRejected ==
    /\ (built /\ \E cap \in Capability : ~supported(cap))
           => (rejected /\ ~performed("HandshakeState::new"))
    /\ (rejected /\ trace # <<>>)
           => /\ ~supported(CapabilityOf(trace[Len(trace)]))
              /\ ret.val.msg = MessageOf(CapabilityOf(trace[Len(trace)]))
    /\ constructed
           => /\ \A cap \in Capability : supported(cap)
              /\ SubSeq(trace, 1, 7) = ExpectedQueries

C4_Witness ==
    /\ rejected /\ required_keys_supplied
    /\ supported("rng") /\ supported("cipher") /\ supported("dh")
    /\ ~supported("hash")
    /\ ret.val.msg = MessageOf("hash")
    /\ trace = SubSeq(ExpectedQueries, 1, 3)

\* C5: HandshakeState::new receives the prologue the caller set (empty only
\* when none was set) and the pre-shared key the caller set (absent only
\* when none was set).
C5_PrologueAndPskPassedOn ==
    constructed
        => /\ ret.val.prologue = unwrap_or_empty(last.plog)
           /\ ret.val.optional_preshared_key = last.psk

\* C6: build is a fail-fast sequence in the order local key requirement,
\* remote key requirement, RNG, cipher, hash, DH (static), DH (ephemeral),
\* transport cipher 1, transport cipher 2, key installation, construction:
\* the error is that of the first failing check and nothing after it is
\* performed; a missing-key failure comes before any resolver query and
\* before any key installation.
C6_FailFastOrder ==
    built =>
        IF local_key_required /\ last.s = None THEN
            rejected /\ ret.val.msg = LocalKeyMessage /\ trace = <<>>
        ELSE IF remote_key_required /\ last.rs = None THEN
            rejected /\ ret.val.msg = RemoteKeyMessage /\ trace = <<>>
        ELSE IF \E cap \in Capability : ~supported(cap) THEN
            /\ rejected
            /\ Len(trace) \in 1..7
            /\ trace = SubSeq(ExpectedQueries, 1, Len(trace))
            /\ \A i \in 1..(Len(trace) - 1) : supported(CapabilityOf(trace[i]))
            /\ ~supported(CapabilityOf(trace[Len(trace)]))
            /\ ret.val.msg = MessageOf(CapabilityOf(trace[Len(trace)]))
        ELSE
            /\ constructed
            /\ trace = ExpectedQueries
                       \o (IF last.s # None THEN <<"s.set">> ELSE <<>>)
                       \o (IF last.e # None THEN <<"e.set">> ELSE <<>>)
                       \o <<"HandshakeState::new">>

C6_Witness ==
    /\ built
    /\ local_key_required /\ last.s = None
    /\ remote_key_required /\ last.rs = None
    /\ ~supported("rng") /\ ~supported("hash")
    /\ last.e # None
    /\ ret.val.msg = LocalKeyMessage /\ trace = <<>>

\* C7: the default resolver resolves the RNG, every hash choice and every
\* cipher choice, and resolves a DH choice exactly when it is Curve25519;
\* a builder with the default resolver fails a resolver query only with
\* the DH error, and only when the descriptor's DH choice is not Curve25519.
C7_DefaultResolverTotal ==
    created.resolver.kind = "DefaultResolver" =>
        /\ resolve_rng(created.resolver) # None
        /\ \A h \in HashChoice : resolve_hash(created.resolver, h) # None
        /\ \A c \in CipherChoice : resolve_cipher(created.resolver, c) # None
        /\ \A d \in DHChoice :
               resolve_dh(created.resolver, d) # None <=> d = "Curve25519"
        /\ (rejected /\ trace # <<>>)
               => /\ ret.val.msg = MessageOf("dh")
                  /\ created.params.dh # "Curve25519"

C7_Witness ==
    /\ created.resolver.kind = "DefaultResolver"
    /\ created.params.dh = "OtherDH"
    /\ created.params.hash = "Blake2b"
    /\ created.params.cipher = "AESGCM"
    /\ rejected /\ ret.val.msg = MessageOf("dh")
    /\ trace = SubSeq(ExpectedQueries, 1, 4)

\* C8: each of the four presence flags handed to HandshakeState::new tells
\* exactly whether the slot was supplied, whatever the bytes; an unsupplied
\* remote key is handed over as the empty byte string, a supplied one
\* unchanged.
C8_PresenceFlags ==
    constructed
        => /\ ret.val.has_s = (last.s # None)
           /\ ret.val.has_e = (last.e # None)
           /\ ret.val.has_rs = (last.rs # None)
           /\ ret.val.has_re = (last.re # None)
           /\ ret.val.rs = unwrap_or_empty(last.rs)
           /\ ret.val.re = unwrap_or_empty(last.re)

C8_Witness ==
    /\ constructed
    /\ last.rs = Some(<<>>) /\ last.s = Some(<<0>>)
    /\ ret.val.has_rs /\ ret.val.has_s
    /\ ~ret.val.has_e /\ ~ret.val.has_re
    /\ ret.val.rs = <<>> /\ ret.val.re = <<>>

\* C9: a private key is installed into a DH instance exactly when it was
\* supplied, the static key into the instance of the first resolve_dh
\* query and the ephemeral key into the instance of the second; keys are
\* installed only after all seven queries succeeded; an instance whose key
\* was not supplied is handed over as the resolver returned it.
C9_KeyInstallation ==
    /\ constructed
           => /\ ret.val.s = [impl |-> unwrap(resolve_dh(created.resolver, created.params.dh)),
                              query |-> 4, key |-> last.s]
              /\ ret.val.e = [impl |-> unwrap(resolve_dh(created.resolver, created.params.dh)),
                              query |-> 5, key |-> last.e]
              /\ trace[4] = "resolve_dh" /\ trace[5] = "resolve_dh"
              /\ \A i \in 1..Len(trace) : trace[i] \in {"s.set", "e.set"} => i > 7
              /\ performed("s.set") <=> last.s # None
              /\ performed("e.set") <=> last.e # None
    /\ rejected => ~performed("s.set") /\ ~performed("e.set")

C9_Witness ==
    /\ constructed
    /\ last.s = None /\ last.e = Some(<<0>>)
    /\ ret.val.s.key = None /\ ret.val.e.key = Some(<<0>>)
    /\ performed("e.set") /\ ~performed("s.set")

\* C10: a setter changes its own slot only, and never the descriptor or the
\* resolver; a repeated call replaces the earlier value; the configuration,
\* and with it what build returns, is determined by the last value given
\* per slot, whatever the order of the calls.
C10_SettersIndependent ==
    /\ builder = [created EXCEPT !.s = last.s, !.e = last.e,
                                 !.rs = last.rs, !.re = last.re,
                                 !.psk = last.psk, !.plog = last.plog]
    /\ \A x \in Slots : created[x] = None
    /\ built =>
           unwrap(outcome) =
               build([created EXCEPT !.s = last.s, !.e = last.e,
                                     !.rs = last.rs, !.re = last.re,
                                     !.psk = last.psk, !.plog = last.plog],
                     role)

C10_Witness ==
    /\ calls = 2 /\ replaced
    /\ last.plog = Some(<<0>>)
    /\ builder.plog = Some(<<0>>)
    /\ builder.psk = None
    /\ built

====
